---- MODULE Spec2Model ----
(***************************************************************************)
(* USSD-over-TCP client (abeloha/USSD-TCP), src/main.go lines 409-897:     *)
(* the frame codec (createHeader, sendMessage, readResponse), the logon    *)
(* and keepalive loop of main, the dispatcher listenToTCPMessages and the  *)
(* responder chain processServerMessage -> handleUSSDRequest ->            *)
(* handleMenuRequest.                                                      *)
(*                                                                         *)
(* Specifications that share the module:                                   *)
(*   SpecCodec  byte-accurate frames: sendMessage writes, the network      *)
(*              delivers in pieces, readResponse reads.                    *)
(*   Spec       the running process: main, dispatcher, responders and the  *)
(*              socket they share, frames kept as records.                 *)
(*   SpecShutdown  Spec with the shutdown signal as an input.              *)
(*   SpecFair      Spec under fair scheduling of the goroutines.           *)
(*   SpecMetrics   Spec with the monitoring updates run to their end.      *)
(***************************************************************************)
EXTENDS Integers, Sequences, FiniteSets, TLC

(***************************************************************************)
(* Program constants of the codec.                                         *)
(***************************************************************************)
\* make([]byte, 32) in createHeader: the header buffer sendMessage prepends
HeaderAlloc == 32
\* copy(header[:16], sessionID) / header[16:] / header[:16]
KeyLen == 16
\* len(fullXML)+32 in sendMessage
LenOverhead == 32
\* make([]byte, 19) in readResponse
RecvHeaderLen == 19
\* make([]byte, length-16) in readResponse
BodyAdjust == 16
\* fmt.Sprintf("%03d", length)
LenDigits == 3
\* the header size the comments and the specification state
DocHeaderLen == 19
\* a fresh Go byte slice is zero-filled
NUL == 0
\* the largest value three decimal digits hold
MaxLenField == 999
\* ASCII '0', '+', '-'
Ch0 == 48
ChPlus == 43
ChMinus == 45

(***************************************************************************)
(* Bounds of the model.                                                    *)
(***************************************************************************)
\* short payloads of every length 0..MaxPayloadLen are encoded
MaxPayloadLen == 3
\* the peer echoes a written stream back only when it is at most this long
MaxEcho == 40
\* number of readResponse calls in one codec run
MaxReads == 2
\* number of frames the gateway itself sends in one codec run
MaxGwFrames == 1

Min(a, b) == IF a < b THEN a ELSE b

Bytes(n, base, m) == [i \in 1..n |-> base + (i % m)]

(***************************************************************************)
(* fmt.Sprintf("%03d", n) for n >= 0: the decimal digits of n, zero-padded *)
(* on the left to at least three characters (more digits are kept).        *)
(***************************************************************************)
RECURSIVE Digits(_)
Digits(n) == IF n < 10 THEN <<Ch0 + n>> ELSE Digits(n \div 10) \o <<Ch0 + (n % 10)>>

Sprintf03d(n) ==
    LET d == Digits(n)
    IN  IF Len(d) >= LenDigits THEN d
        ELSE [i \in 1..(LenDigits - Len(d)) |-> Ch0] \o d

(***************************************************************************)
(* createHeader: a zero-filled 32-byte buffer; the first 16 bytes take the *)
(* session id (copy stops at the shorter of the two), the bytes from       *)
(* offset 16 take the length string (copy stops at the buffer's end).      *)
(***************************************************************************)
createHeader(sessionID, length) ==
    LET lengthStr == Sprintf03d(length)
    IN  [i \in 1..HeaderAlloc |->
            IF i <= KeyLen
            THEN (IF i <= Len(sessionID) THEN sessionID[i] ELSE NUL)
            ELSE (IF i - KeyLen <= Len(lengthStr) THEN lengthStr[i - KeyLen] ELSE NUL)]

(***************************************************************************)
(* sendMessage: the buffer handed to conn.Write, header then message.      *)
(***************************************************************************)
fullMessage(message, sessionID) ==
    createHeader(sessionID, Len(message) + LenOverhead) \o message

\* the buffers in the order they are joined on the wire
RECURSIVE Concat(_)
Concat(bufs) == IF Len(bufs) = 0 THEN <<>> ELSE Head(bufs) \o Concat(Tail(bufs))

\* a sendMessage that writes the header and the message one after the other
writeCalls_headerThenMessage(message, sessionID) ==
    <<createHeader(sessionID, Len(message) + LenOverhead), message>>

\* sendMessage: the buffers it hands to conn.Write, one per call: a single
\* conn.Write(fullMessage)
writeCalls(message, sessionID) == <<fullMessage(message, sessionID)>>

\* sendMessage: the locks it holds around conn.Write; connMutex is declared
\* and never locked
sendMessageLocks == {}

\* sendMessage returns the error of conn.Write and no other: whether it
\* refuses a message before writing
sendMessageRefuses(message, sessionID) == FALSE

(***************************************************************************)
(* strconv.Atoi on the three bytes header[16:19]: an optional sign, then   *)
(* decimal digits only, at least one.                                      *)
(***************************************************************************)
IsDigit(b) == b >= Ch0 /\ b <= Ch0 + 9

RECURSIVE DecVal(_)
DecVal(s) == IF Len(s) = 0 THEN 0
             ELSE 10 * DecVal(SubSeq(s, 1, Len(s) - 1)) + (s[Len(s)] - Ch0)

\* a conversion that reports no error
AtoiOk_noCheck(s) == TRUE

AtoiOk(s) ==
    LET signed == Len(s) > 0 /\ s[1] \in {ChPlus, ChMinus}
        ds == IF signed THEN Tail(s) ELSE s
    IN  Len(ds) > 0 /\ \A i \in 1..Len(ds) : IsDigit(ds[i])

Atoi(s) ==
    LET signed == s[1] \in {ChPlus, ChMinus}
        ds == IF signed THEN Tail(s) ELSE s
    IN  IF s[1] = ChMinus THEN 0 - DecVal(ds) ELSE DecVal(ds)


(***************************************************************************)
(* State.  Codec run (SpecCodec):                                          *)
(*   cKey, cPayload  the arguments every sendMessage call of the run gets  *)
(*   cSends          number of sendMessage calls made                      *)
(*   cWire           the bytes conn.Write was handed, in order             *)
(*   cEchoed         the peer has sent cWire back                          *)
(*   gwSent          number of frames the gateway has sent of its own      *)
(*   net             inbound bytes sent by the peer, still in the network  *)
(*   rcv             inbound bytes arrived in the socket, not yet read     *)
(*   rPc             readResponse: idle, body, ok, err, panic              *)
(*   rHeader, rBody  the buffers readResponse allocates and returns; when  *)
(*                   Atoi or make ends the call, rHeader is the header it  *)
(*                   had read                                              *)
(*   rGotH, rGotB    bytes the two conn.Read calls actually returned       *)
(*   reads           readResponse calls completed                          *)
(*   cSendErr        the last sendMessage call returned an error           *)
(*   cWrites         conn.Write calls sendMessage has made                 *)
(*   gwBytes         all bytes the gateway has sent of its own             *)
(*                                                                         *)
(* Running process (Spec):                                                 *)
(*   alive           the process has not exited (log.Fatalf)               *)
(*   mainPc          main: logon, logonWrite, logonRead, loop, enqWrite,   *)
(*                   exit                                                  *)
(*   sessionID       main's sessionID, header[:16] of the logon response   *)
(*   ticks           ticker firings main has served                        *)
(*   dispPc          listenToTCPMessages: off, select, stopped, panic      *)
(*   nRead           inbound frames readResponse has returned to it        *)
(*   resp            per inbound frame, its processServerMessage goroutine *)
(*   out             per writer (0 main, i the goroutine of frame i), its  *)
(*                   sendMessage call: st, frame, part, n                  *)
(*   writing         writers inside conn.Write                             *)
(*   wire            the pieces the socket has taken, in order: part 1 the *)
(*                   head of a Write buffer, part 2 the rest of it         *)
(*   connBroken      a write on the connection has failed                  *)
(***************************************************************************)
VARIABLES cKey, cPayload, cSends, cWire, cEchoed, gwSent, net, rcv,
          rPc, rHeader, rBody, rGotH, rGotB, reads, cSendErr,
          cWrites,    \* number of conn.Write calls sendMessage has made
          gwBytes,    \* all bytes the gateway has sent of its own, in order
          alive, mainPc, sessionID, ticks, dispPc, nRead, resp, out,
          writing, wire, connBroken,
          mainErr,    \* the error branch main has taken: "", logonSend, logonRead, enquire
          logonKey,   \* the first 16 header bytes of the logon response, as the gateway sent them
          readers,    \* the tasks whose readResponse took a frame after the handshake
          stopClosed, \* stopChan has been closed
          metricsPanic \* the status whose PostMetricData job has panicked, "" if none

cvars == <<cKey, cPayload, cSends, cWire, cEchoed, gwSent, net, rcv,
           rPc, rHeader, rBody, rGotH, rGotB, reads, cSendErr, cWrites, gwBytes>>

pvars == <<alive, mainPc, sessionID, ticks, dispPc, nRead, resp, out,
           writing, wire, connBroken, mainErr, logonKey, readers, stopClosed,
           metricsPanic>>

vars == <<cvars, pvars>>

\* number of sendMessage calls in one codec run
MaxSends == 1

\* session ids handed to sendMessage: empty, one byte, a 13-digit request id, 16 bytes
KeyLens == {0, 1, 13, KeyLen}
Keys == {Bytes(n, 65, 5) : n \in KeyLens}

\* payload lengths around the largest that fits three digits, under the
\* documented header (19) and under the header the code builds (32)
LongPayloadLens == {MaxLenField - LenOverhead, MaxLenField + 1 - LenOverhead,
                    MaxLenField - DocHeaderLen, MaxLenField + 1 - DocHeaderLen}
Payloads == {Bytes(n, 97, 7) : n \in (0..MaxPayloadLen) \cup LongPayloadLens}

\* what the gateway may put in the three length bytes of a header
GwLenFields == { Sprintf03d(KeyLen), Sprintf03d(KeyLen + 2), Sprintf03d(KeyLen - 1),
                 <<Ch0, 120, Ch0 + 1>>, <<ChMinus, Ch0, Ch0 + 1>>, <<ChPlus, Ch0 + 1, Ch0 + 8>> }
GwBodies == {Bytes(n, 109, 3) : n \in 0..2}
GwKey == Bytes(KeyLen, 83, 4)

Zeros(n) == [i \in 1..n |-> NUL]

\* conn.Read(buf) with data available: fills buf from the front with as many
\* bytes as are there, at most len(buf); the rest of buf keeps its zeros
ReadInto(cap, avail) ==
    LET n == Min(cap, Len(avail))
    IN  [buf |-> SubSeq(avail, 1, n) \o Zeros(cap - n), n |-> n,
         rest |-> SubSeq(avail, n + 1, Len(avail))]

(***************************************************************************)
(* The running process.                                                    *)
(***************************************************************************)
\* inbound frames the gateway sends after the logon response
MaxEvents == 2
\* ticker firings
MaxTicks == 1
\* MsgType: 2 in the USSDResponse literal, 6 when the session ends
MsgTypeContinue == 2
MsgTypeEnd == 6
\* the msgType values handleMenuRequest lets through
MsgTypeMenu == 1
MsgTypeText == 4

Events == 1..MaxEvents
\* writer 0 is main, writer i the goroutine serving inbound frame i
Writers == 0..MaxEvents

ReqIds == <<"R1", "R2", "R3", "R4">>
LogonRequestID == "0000000001"
\* the 16 bytes the gateway puts first in the header of its logon response
SessionKeys == {"SESSIONKEY000001"}

ErrorCodes == {"", "E1"}
EndOfSessionVals == {0, 1}
MsgTypes == {MsgTypeMenu, MsgTypeContinue, MsgTypeText}
UserDatas == {"", "1"}

\* the body of inbound frame i as xml.Unmarshal sees it. A request that
\* carries an errorCode or has ended comes with an otherwise acceptable
\* msgType and userData; a continuing request comes with every msgType and
\* userData
USSDRequests(i) ==
    { r \in [root : {"USSDRequest"}, requestId : {ReqIds[i]}, msisdn : {ReqIds[i]},
             starCode : {"123"}, clientId : {"C"}, phase : {2}, dcs : {15},
             msgType : MsgTypes, userData : UserDatas, endOfSession : EndOfSessionVals,
             errorCode : ErrorCodes] :
        (r.errorCode # "" \/ r.endOfSession # 0)
            => (r.msgType = MsgTypeMenu /\ r.userData # "") }

\* a body that is no USSDRequest document: an acknowledgement, a cut frame
OtherBody == [root |-> "ENQResponse", requestId |-> "", msisdn |-> "",
              starCode |-> "", clientId |-> "", phase |-> 0, dcs |-> 0,
              msgType |-> 0, userData |-> "", endOfSession |-> 0, errorCode |-> ""]

InboundBodies(i) == USSDRequests(i) \cup {OtherBody}

\* what getUssdMenu returns: an error, or the decoded {message, continue};
\* status is the HTTP status of the answer the result was decoded from
ApiError == [ok |-> FALSE, message |-> "", continue |-> FALSE, status |-> 0]
\* the message text the menu API has for the request of inbound frame i
MenuTexts == <<"Menu 1", "Menu 2", "Menu 3", "Menu 4">>

ApiResults == [ok : {TRUE}, message : {""} \cup {MenuTexts[i] : i \in 1..Len(MenuTexts)},
               continue : BOOLEAN, status : {200, 500}]

\* what http.Post and io.ReadAll give getUssdMenu: postErr is an error of
\* either; json says whether the body is a JSON document, message and
\* continue are the two fields json.Unmarshal finds in it (a JSON document
\* without them leaves the zero values)
HttpAnswer(e, st, js, m, c) ==
    [postErr |-> e, status |-> st, json |-> js, message |-> m, continue |-> c]

HttpResults(i) ==
    { HttpAnswer(TRUE, 0, FALSE, "", FALSE),
      HttpAnswer(FALSE, 200, TRUE, MenuTexts[i], TRUE),
      HttpAnswer(FALSE, 200, TRUE, MenuTexts[i], FALSE),
      HttpAnswer(FALSE, 200, FALSE, "", FALSE),
      HttpAnswer(FALSE, 500, FALSE, "", FALSE),
      HttpAnswer(FALSE, 500, TRUE, "", FALSE) }

\* getUssdMenu: an error of http.Post, io.ReadAll or json.Unmarshal is
\* returned; resp.StatusCode is not looked at
getUssdMenu(h) ==
    IF h.postErr THEN ApiError
    ELSE IF ~h.json THEN ApiError
    ELSE [ok |-> TRUE, message |-> h.message, continue |-> h.continue,
          status |-> h.status]

NoFrame == [kind |-> "none", key |-> "", requestId |-> "", msisdn |-> "",
            starCode |-> "", clientId |-> "", phase |-> 0, dcs |-> 0,
            msgType |-> 0, userData |-> "", endOfSession |-> 0]

\* xml.Marshal(logon), sent under the request id
LogonFrame == [NoFrame EXCEPT !.kind = "AUTHRequest", !.key = LogonRequestID,
                              !.requestId = LogonRequestID]

\* xml.Marshal(EnquireLink{}), sent under main's sessionID
EnquireFrame(sid) == [NoFrame EXCEPT !.kind = "ENQRequest", !.key = sid]

\* a processServerMessage that hands every document to handleUSSDRequest
isUSSDRequest_anyRoot(body) == TRUE

\* processServerMessage: err != nil || XMLName.Local != "USSDRequest"
isUSSDRequest(body) == body.root = "USSDRequest"

\* handleUSSDRequest without its errorCode check
handleUSSDRequest_noErrorCheck(req) ==
    IF req.endOfSession = 0 THEN "menu" ELSE "ended"

\* handleUSSDRequest calling handleMenuRequest whatever EndOfSession is
handleUSSDRequest_noEndCheck(req) ==
    IF req.errorCode # "" THEN "error" ELSE "menu"

\* handleUSSDRequest: "error" and "ended" return, "menu" calls handleMenuRequest
handleUSSDRequest(req) ==
    IF req.errorCode # "" THEN "error"
    ELSE IF req.endOfSession = 0 THEN "menu"
    ELSE "ended"

\* handleMenuRequest without the msgType and userData checks
menuRequestAccepted_unchecked(req) == TRUE

\* handleMenuRequest of the older variant: only msgType 1 passes
menuRequestAccepted_onlyMenu(req) ==
    /\ ~(req.msgType # MsgTypeMenu)
    /\ ~(req.userData = "")

\* handleMenuRequest, the two early returns before getUssdMenu
menuRequestAccepted(req) ==
    /\ ~(req.msgType # MsgTypeMenu /\ req.msgType # MsgTypeText)
    /\ ~(req.userData = "")

\* the USSDResponse literal without the "if !ussdContinue" block after it
USSDResponse_noEndBlock(req, api) ==
    [kind |-> "USSDResponse", key |-> req.requestId, requestId |-> req.requestId,
     msisdn |-> req.msisdn, starCode |-> req.starCode, clientId |-> req.clientId,
     phase |-> req.phase, dcs |-> req.dcs, msgType |-> MsgTypeContinue,
     userData |-> api.message, endOfSession |-> 0]

\* a USSDResponse whose userData is the request's own userData
USSDResponse_echoesUserData(req, api) ==
    [kind |-> "USSDResponse", key |-> req.requestId, requestId |-> req.requestId,
     msisdn |-> req.msisdn, starCode |-> req.starCode, clientId |-> req.clientId,
     phase |-> req.phase, dcs |-> req.dcs,
     msgType |-> IF ~api.continue THEN MsgTypeEnd ELSE MsgTypeContinue,
     userData |-> req.userData,
     endOfSession |-> IF ~api.continue THEN 1 ELSE 0]

\* the USSDResponse of the older variant: MsgType copied from the request,
\* EndOfSession set to 1 when the session does not continue
USSDResponse_copiesMsgType(req, api) ==
    [kind |-> "USSDResponse", key |-> req.requestId, requestId |-> req.requestId,
     msisdn |-> req.msisdn, starCode |-> req.starCode, clientId |-> req.clientId,
     phase |-> req.phase, dcs |-> req.dcs,
     msgType |-> req.msgType,
     userData |-> api.message,
     endOfSession |-> IF ~api.continue THEN 1 ELSE 0]

\* handleMenuRequest: the USSDResponse built from the request and the answer
USSDResponse(req, api) ==
    [kind |-> "USSDResponse",
     key |-> req.requestId,
     requestId |-> req.requestId,
     msisdn |-> req.msisdn,
     starCode |-> req.starCode,
     clientId |-> req.clientId,
     phase |-> req.phase,
     dcs |-> req.dcs,
     msgType |-> IF ~api.continue THEN MsgTypeEnd ELSE MsgTypeContinue,
     userData |-> api.message,
     endOfSession |-> IF ~api.continue THEN 1 ELSE 0]

\* a connection whose Write calls run side by side
canEnterWrite_unserialised(w) == TRUE

\* conn.Write on a net.Conn: a Write call of one goroutine runs only while no
\* other goroutine is inside Write on the same connection
canEnterWrite(w) == writing = {}

\* a main that enters its ticker loop once the logon is written, without
\* reading the response
afterLogonSend_noRead(ok) == IF ok THEN "loop" ELSE "exit"

\* main after sendMessage(conn, logonXML, requestID): log.Fatalf on an error
afterLogonSend(ok) == IF ok THEN "logonRead" ELSE "exit"

\* a keepalive loop that logs a failed write and waits for the next tick
afterEnquireSend_goesOn(ok) == "loop"

\* main after sendMessage(conn, enqXML, sessionID): log.Fatalf on an error
afterEnquireSend(ok) == IF ok THEN "loop" ELSE "exit"

\* a handleMenuRequest that calls sendMessage again after an error
afterReplySend_retries(ok) == IF ok THEN "done" ELSE "retry"

\* handleMenuRequest after sendMessage: an error is logged and reported to
\* monitoring, and the function ends either way
afterReplySend(ok) == "done"

\* a main that fails to read the logon response, logs it and goes on
afterLogonReadError_goesOn == "loop"

\* main after readResponse failed on the logon response: log.Fatalf
afterLogonReadError == "exit"

\* a main that keeps the request id it sent as the session key
sessionIDFrom_requestID(headerKey) == LogonRequestID

\* main: sessionID := string(header[:16])
sessionIDFrom(headerKey) == headerKey

\* a keepalive loop that sends the enquire link under the request id
enquireKey_requestID(sid) == LogonRequestID

\* main: sendMessage(conn, enqXML, sessionID)
enquireKey(sid) == sid

\* a keepalive loop that reads the acknowledgement after each enquire link
keepaliveReads_acknowledgement == {"main"}

\* the tasks that call readResponse in the body of the ticker loop: none
keepaliveReads == {}

\* a listenToTCPMessages whose loop has no stopChan case
selectCase_noStopCase(closed) == "default"

\* listenToTCPMessages: select { case <-stopChan: return; default: ... }
selectCase(closed) == IF closed THEN "stop" ELSE "default"

\* listenToTCPMessages after readResponse returned an error: time.Sleep(1 s)
\* and continue, back to the select
afterReadError == "select"

\* handleMenuRequest after getUssdMenu returned an error: it is logged,
\* reported to monitoring, and the function returns
afterResolverError == "return"

\* a listenToTCPMessages that calls processServerMessage itself and reads
\* again when it has returned
dispatcherReady_synchronous(r) == \A i \in DOMAIN r : r[i].pc \in {"none", "done"}

\* listenToTCPMessages starts processServerMessage with a go statement: its
\* next readResponse waits for none of the goroutines r
dispatcherReady(r) == TRUE

\* the status strings handed to UpdateMonitoringService
StatusNew == "new"
StatusResolverFailed == "Failed to get USSD menu"
StatusSendFailed == "Failed to send ussd request message"

\* what a monitoring update finds when it runs: the two channel names of the
\* environment ("" when unset), MONITORING_STATUS = INACTIVE, whether
\* logger.New can make the log file
MetricsEnvs == [countChannel : {"", "ussd_count"}, failureChannel : {"", "ussd_failure"},
                inactive : BOOLEAN, loggerOk : BOOLEAN]

\* the answer to the POST of the job: a transport error, or an HTTP status
MetricsPosts == [err : BOOLEAN, status : {200, 500}]

\* PostMetricData.Handle: "return" or "panic". errorLogger is nil when
\* getLogger failed; the error branches test it, the two branches after an
\* answered POST call errorLogger.Error without the test, and Logger.log
\* reads l.logPrefix
PostMetricDataHandle(env, post) ==
    IF env.inactive THEN "return"
    ELSE IF post.err THEN "return"
    ELSE IF env.loggerOk THEN "return"
    ELSE "panic"

\* UpdateMonitoringService(req, status, err): the channel is chosen by
\* err != nil; without a channel it returns, else it starts the job
UpdateMonitoringService(hasErr, env, post) ==
    LET channel == IF hasErr THEN env.failureChannel ELSE env.countChannel
    IN  IF channel = "" THEN "return" ELSE PostMetricDataHandle(env, post)

\* monitor: the statuses the goroutine has handed to UpdateMonitoringService
NoResp == [pc |-> "none", body |-> OtherBody, api |-> ApiError,
           called |-> FALSE, sent |-> "no", monitor |-> {}]
Idle == [st |-> "idle", frame |-> NoFrame, part |-> 0, n |-> 0]

InitProcess ==
    /\ alive = TRUE
    /\ mainPc = "logon"
    /\ sessionID = ""
    /\ ticks = 0
    /\ dispPc = "off"
    /\ nRead = 0
    /\ resp = [i \in Events |-> NoResp]
    /\ out = [w \in Writers |-> Idle]
    /\ writing = {}
    /\ wire = <<>>
    /\ connBroken = FALSE
    /\ mainErr = ""
    /\ logonKey = ""
    /\ readers = {}
    /\ stopClosed = FALSE
    /\ metricsPanic = ""

InitCodec ==
    /\ cKey = <<>>
    /\ cPayload = <<>>
    /\ cSends = 0
    /\ cWire = <<>>
    /\ cEchoed = FALSE
    /\ gwSent = 0
    /\ net = <<>>
    /\ rcv = <<>>
    /\ rPc = "idle"
    /\ rHeader = <<>>
    /\ rBody = <<>>
    /\ rGotH = 0
    /\ rGotB = 0
    /\ reads = 0
    /\ cSendErr = FALSE
    /\ cWrites = 0
    /\ gwBytes = <<>>

\* sendMessage(conn, message, sessionID) on a healthy connection
CodecSend ==
    /\ cSends < MaxSends
    /\ ~cEchoed
    /\ gwSent = 0
    /\ \E k \in Keys, m \in Payloads :
          /\ cSends = 0 \/ (k = cKey /\ m = cPayload)
          /\ cKey' = k
          /\ cPayload' = m
          /\ cSendErr' = sendMessageRefuses(m, k)
          /\ cWire' = IF sendMessageRefuses(m, k) THEN cWire
                      ELSE cWire \o Concat(writeCalls(m, k))
          /\ cWrites' = IF sendMessageRefuses(m, k) THEN cWrites
                        ELSE cWrites + Len(writeCalls(m, k))
    /\ cSends' = cSends + 1
    /\ UNCHANGED <<cEchoed, gwSent, net, rcv,
                   rPc, rHeader, rBody, rGotH, rGotB, reads>>
    /\ UNCHANGED gwBytes
    /\ UNCHANGED pvars

\* the peer sends the written stream back unchanged
Echo ==
    /\ ~cEchoed
    /\ gwSent = 0
    /\ cSends > 0
    /\ Len(cWire) <= MaxEcho
    /\ cEchoed' = TRUE
    /\ net' = net \o cWire
    /\ UNCHANGED <<cSendErr, cKey, cPayload, cSends, cWire, gwSent, rcv,
                   rPc, rHeader, rBody, rGotH, rGotB, reads>>
    /\ UNCHANGED <<cWrites, gwBytes>>
    /\ UNCHANGED pvars

\* the gateway sends a frame of its own: 16 key bytes, 3 length bytes, a body
GatewaySend ==
    /\ ~cEchoed
    /\ cSends = 0
    /\ gwSent < MaxGwFrames
    /\ \E lf \in GwLenFields, b \in GwBodies :
          /\ net' = net \o GwKey \o lf \o b
          /\ gwBytes' = gwBytes \o GwKey \o lf \o b
    /\ gwSent' = gwSent + 1
    /\ UNCHANGED <<cSendErr, cKey, cPayload, cSends, cWire, cEchoed, rcv,
                   rPc, rHeader, rBody, rGotH, rGotB, reads>>
    /\ UNCHANGED cWrites
    /\ UNCHANGED pvars

\* the bytes a conn.Read finds: what had arrived plus the next k bytes TCP
\* hands over while the call waits
Arrived(k) == rcv \o SubSeq(net, 1, k)

\* readResponse up to the allocation of body: conn.Read(header), Atoi, make
ReadHeader ==
    /\ rPc = "idle"
    /\ reads < MaxReads
    /\ \E k \in 0..Len(net) :
        /\ Len(Arrived(k)) > 0
        /\ net' = SubSeq(net, k + 1, Len(net))
        /\ LET r == ReadInto(RecvHeaderLen, Arrived(k))
               lf == SubSeq(r.buf, KeyLen + 1, RecvHeaderLen)
           IN  /\ rcv' = r.rest
               /\ rGotH' = r.n
               /\ rGotB' = 0
               /\ IF ~AtoiOk(lf)
                  THEN /\ rPc' = "err"
                       /\ rHeader' = r.buf
                       /\ rBody' = <<>>
                  ELSE IF Atoi(lf) - BodyAdjust < 0
                  THEN /\ rPc' = "panic"
                       /\ rHeader' = r.buf
                       /\ rBody' = <<>>
                  ELSE /\ rPc' = "body"
                       /\ rHeader' = r.buf
                       /\ rBody' = Zeros(Atoi(lf) - BodyAdjust)
    /\ UNCHANGED <<cSendErr, cKey, cPayload, cSends, cWire, cEchoed, gwSent, reads>>
    /\ UNCHANGED <<cWrites, gwBytes>>
    /\ UNCHANGED pvars

\* the 5 s deadline passes with nothing to read: "read timeout: no message received"
ReadHeaderTimeout ==
    /\ rPc = "idle"
    /\ reads < MaxReads
    /\ Len(rcv) = 0
    /\ rPc' = "err"
    /\ rHeader' = <<>>
    /\ rBody' = <<>>
    /\ rGotH' = 0
    /\ rGotB' = 0
    /\ UNCHANGED <<cSendErr, cKey, cPayload, cSends, cWire, cEchoed, gwSent, net, rcv, reads>>
    /\ UNCHANGED <<cWrites, gwBytes>>
    /\ UNCHANGED pvars

\* conn.Read(body) and the return of (header, body, nil); a zero-length body
\* is read without waiting
ReadBody ==
    /\ rPc = "body"
    /\ \E k \in 0..Len(net) :
        /\ Len(rBody) = 0 => k = 0
        /\ Len(rBody) > 0 => Len(Arrived(k)) > 0
        /\ net' = SubSeq(net, k + 1, Len(net))
        /\ LET r == ReadInto(Len(rBody), Arrived(k))
           IN  /\ rcv' = r.rest
               /\ rBody' = r.buf
               /\ rGotB' = r.n
    /\ rPc' = "ok"
    /\ UNCHANGED <<cSendErr, cKey, cPayload, cSends, cWire, cEchoed, gwSent, rHeader, rGotH, reads>>
    /\ UNCHANGED <<cWrites, gwBytes>>
    /\ UNCHANGED pvars

\* the deadline passes between header and body: "read timeout: incomplete message"
ReadBodyTimeout ==
    /\ rPc = "body"
    /\ Len(rBody) > 0
    /\ Len(rcv) = 0
    /\ rPc' = "err"
    /\ rHeader' = <<>>
    /\ rBody' = <<>>
    /\ UNCHANGED <<cSendErr, cKey, cPayload, cSends, cWire, cEchoed, gwSent, net, rcv, rGotH, rGotB, reads>>
    /\ UNCHANGED <<cWrites, gwBytes>>
    /\ UNCHANGED pvars

\* the caller calls readResponse again
ReadAgain ==
    /\ rPc \in {"ok", "err"}
    /\ reads + 1 < MaxReads
    /\ reads' = reads + 1
    /\ rPc' = "idle"
    /\ rHeader' = <<>>
    /\ rBody' = <<>>
    /\ rGotH' = 0
    /\ rGotB' = 0
    /\ UNCHANGED <<cSendErr, cKey, cPayload, cSends, cWire, cEchoed, gwSent, net, rcv>>
    /\ UNCHANGED <<cWrites, gwBytes>>
    /\ UNCHANGED pvars

NextCodec ==
    \/ CodecSend
    \/ Echo
    \/ GatewaySend
    \/ ReadHeader
    \/ ReadHeaderTimeout
    \/ ReadBody
    \/ ReadBodyTimeout
    \/ ReadAgain

Init ==
    /\ InitCodec
    /\ InitProcess

SpecCodec == Init /\ [][NextCodec]_vars

(***************************************************************************)
(* Actions of the running process.                                         *)
(***************************************************************************)
\* a caller enters sendMessage with its frame
Want(w, f) == [out EXCEPT ![w] = [st |-> "want", frame |-> f, part |-> 0, n |-> @.n + 1]]

\* main: sendMessage(conn, logonXML, requestID)
MainSendLogon ==
    /\ alive
    /\ mainPc = "logon"
    /\ mainPc' = "logonWrite"
    /\ out' = Want(0, LogonFrame)
    /\ UNCHANGED <<alive, sessionID, ticks, dispPc, nRead, resp, writing, wire, connBroken>>
    /\ UNCHANGED <<mainErr, logonKey, readers, stopClosed>>
    /\ UNCHANGED metricsPanic
    /\ UNCHANGED cvars

\* main: readResponse returns the logon response; sessionID := header[:16];
\* stopChan is made and listenToTCPMessages started
MainReadLogon ==
    /\ alive
    /\ mainPc = "logonRead"
    /\ \E k \in SessionKeys :
          /\ logonKey' = k
          /\ sessionID' = sessionIDFrom(k)
    /\ mainPc' = "loop"
    /\ dispPc' = "select"
    /\ UNCHANGED <<alive, ticks, nRead, resp, out, writing, wire, connBroken>>
    /\ UNCHANGED <<mainErr, readers, stopClosed>>
    /\ UNCHANGED metricsPanic
    /\ UNCHANGED cvars

\* main: readResponse fails on the logon response (a timeout, a length field
\* that is no number): log.Fatalf
MainLogonReadFails ==
    /\ alive
    /\ mainPc = "logonRead"
    /\ mainErr' = "logonRead"
    /\ mainPc' = afterLogonReadError
    /\ alive' = (afterLogonReadError # "exit")
    /\ dispPc' = IF afterLogonReadError = "exit" THEN dispPc ELSE "select"
    /\ UNCHANGED <<sessionID, ticks, nRead, resp, out, writing, wire, connBroken>>
    /\ UNCHANGED <<logonKey, readers, stopClosed>>
    /\ UNCHANGED metricsPanic
    /\ UNCHANGED cvars

\* main: the ticker fires; sendMessage(conn, enqXML, sessionID)
Tick ==
    /\ alive
    /\ mainPc = "loop"
    /\ ticks < MaxTicks
    /\ ticks' = ticks + 1
    /\ mainPc' = "enqWrite"
    /\ out' = Want(0, EnquireFrame(enquireKey(sessionID)))
    /\ readers' = readers \cup keepaliveReads
    /\ UNCHANGED <<alive, sessionID, dispPc, nRead, resp, writing, wire, connBroken>>
    /\ UNCHANGED <<mainErr, logonKey, stopClosed>>
    /\ UNCHANGED metricsPanic
    /\ UNCHANGED cvars

\* goroutine processServerMessage(header, body, conn): what it has come to
\* when it calls getUssdMenu or returns before that. processServerMessage,
\* handleUSSDRequest and the checks of handleMenuRequest touch nothing but the
\* goroutine's own request
Process(b) ==
    LET menu == isUSSDRequest(b) /\ handleUSSDRequest(b) = "menu"
        goes == menu /\ menuRequestAccepted(b)
    IN  [NoResp EXCEPT !.pc = IF goes THEN "resolver" ELSE "done",
                       !.body = b,
                       !.called = goes,
                       !.monitor = IF menu THEN {StatusNew} ELSE {}]

\* listenToTCPMessages: readResponse returns frame i; go processServerMessage,
\* which runs to its call of getUssdMenu or to its return
Dispatch ==
    /\ alive
    /\ dispPc = "select"
    /\ selectCase(stopClosed) = "default"
    /\ dispatcherReady(resp)
    /\ nRead < MaxEvents
    /\ nRead' = nRead + 1
    /\ readers' = readers \cup {"dispatcher"}
    /\ \E b \in InboundBodies(nRead + 1) :
          resp' = [resp EXCEPT ![nRead + 1] = Process(b)]
    /\ UNCHANGED <<alive, mainPc, sessionID, ticks, dispPc, out, writing, wire, connBroken>>
    /\ UNCHANGED <<mainErr, logonKey, stopClosed>>
    /\ UNCHANGED metricsPanic
    /\ UNCHANGED cvars

\* listenToTCPMessages: readResponse returns an error; time.Sleep(1 s);
\* continue
DispatchReadError ==
    /\ alive
    /\ dispPc = "select"
    /\ selectCase(stopClosed) = "default"
    /\ dispatcherReady(resp)
    /\ dispPc' = afterReadError
    /\ UNCHANGED <<alive, mainPc, sessionID, ticks, nRead, resp, out, writing, wire, connBroken>>
    /\ UNCHANGED <<mainErr, logonKey, readers, stopClosed>>
    /\ UNCHANGED metricsPanic
    /\ UNCHANGED cvars

\* listenToTCPMessages: the next frame of the gateway declares a length
\* below 16 and make([]byte, length-16) panics in readResponse; nothing
\* recovers, the process ends
DispatchPanic ==
    /\ alive
    /\ dispPc = "select"
    /\ selectCase(stopClosed) = "default"
    /\ dispatcherReady(resp)
    /\ nRead < MaxEvents
    /\ dispPc' = "panic"
    /\ alive' = FALSE
    /\ UNCHANGED <<mainPc, sessionID, ticks, nRead, resp, out, writing, wire, connBroken>>
    /\ UNCHANGED <<mainErr, logonKey, readers, stopClosed>>
    /\ UNCHANGED metricsPanic
    /\ UNCHANGED cvars

\* listenToTCPMessages: case <-stopChan: return
DispatcherStop ==
    /\ alive
    /\ dispPc = "select"
    /\ selectCase(stopClosed) = "stop"
    /\ dispPc' = "stopped"
    /\ UNCHANGED <<alive, mainPc, sessionID, ticks, nRead, resp, out, writing, wire, connBroken>>
    /\ UNCHANGED <<mainErr, logonKey, readers, stopClosed>>
    /\ UNCHANGED metricsPanic
    /\ UNCHANGED cvars

\* the shutdown signal is raised while main is in its ticker loop: stopChan,
\* made before the loop, is closed
RaiseStop ==
    /\ alive
    /\ mainPc \in {"loop", "enqWrite"}
    /\ ~stopClosed
    /\ stopClosed' = TRUE
    /\ UNCHANGED <<alive, mainPc, sessionID, ticks, dispPc, nRead, resp, out, writing, wire, connBroken>>
    /\ UNCHANGED <<mainErr, logonKey, readers>>
    /\ UNCHANGED metricsPanic
    /\ UNCHANGED cvars

\* goroutine i: getUssdMenu returns; on an error handleMenuRequest returns,
\* else it builds the response and enters sendMessage
ResolverReturns(i) ==
    /\ alive
    /\ resp[i].pc = "resolver"
    /\ \E h \in HttpResults(i) :
          LET a == getUssdMenu(h)
          IN  IF a.ok
              THEN /\ resp' = [resp EXCEPT ![i].pc = "send", ![i].api = a]
                   /\ out' = Want(i, USSDResponse(resp[i].body, a))
                   /\ alive' = alive
              ELSE /\ resp' = [resp EXCEPT ![i].pc = "done", ![i].api = a,
                                           ![i].monitor = @ \cup {StatusResolverFailed}]
                   /\ out' = out
                   /\ alive' = (afterResolverError # "exit")
    /\ UNCHANGED <<mainPc, sessionID, ticks, dispPc, nRead, writing, wire, connBroken>>
    /\ UNCHANGED <<mainErr, logonKey, readers, stopClosed>>
    /\ UNCHANGED metricsPanic
    /\ UNCHANGED cvars

\* the monitoring update of goroutine i for one of its statuses runs to its
\* end: it returns, or its job panics and the process ends
MetricsJob(i) ==
    /\ alive
    /\ \E st \in resp[i].monitor, env \in MetricsEnvs, post \in MetricsPosts :
          LET r == UpdateMonitoringService(st # StatusNew, env, post)
          IN  /\ alive' = (r # "panic")
              /\ metricsPanic' = IF r = "panic" THEN st ELSE metricsPanic
    /\ UNCHANGED <<mainPc, sessionID, ticks, dispPc, nRead, resp, out, writing, wire, connBroken>>
    /\ UNCHANGED <<mainErr, logonKey, readers, stopClosed>>
    /\ UNCHANGED cvars

\* what the caller of sendMessage does with its result; o is out with the
\* finished call of w set idle. main goes on after a nil error and ends the
\* process (log.Fatalf) after an error; goroutine i logs an error and returns
\* either way
AfterSend(w, ok, o) ==
    IF w = 0
    THEN LET nxt == IF mainPc = "logonWrite" THEN afterLogonSend(ok)
                    ELSE afterEnquireSend(ok)
         IN  /\ mainPc' = nxt
             /\ alive' = (nxt # "exit")
             /\ mainErr' = IF ok THEN mainErr
                           ELSE IF mainPc = "logonWrite" THEN "logonSend"
                           ELSE "enquire"
             /\ resp' = resp
             /\ out' = o
    ELSE LET nxt == afterReplySend(ok)
         IN  /\ resp' = [resp EXCEPT ![w].pc = IF nxt = "retry" THEN "send" ELSE "done",
                                     ![w].sent = IF ok THEN "yes" ELSE "failed",
                                     ![w].monitor = IF ok THEN @ ELSE @ \cup {StatusSendFailed}]
             /\ out' = IF nxt = "retry"
                       THEN [o EXCEPT ![w].st = "want", ![w].part = 0, ![w].n = @ + 1]
                       ELSE o
             /\ UNCHANGED <<mainPc, alive, mainErr>>

Piece(w, k) == [w |-> w, n |-> out[w].n, part |-> k, frame |-> out[w].frame]

\* conn.Write is entered and the socket takes the head of the buffer
WriteEnter(w) ==
    /\ alive
    /\ out[w].st = "want"
    /\ ~connBroken
    /\ canEnterWrite(w)
    /\ out' = [out EXCEPT ![w].st = "writing", ![w].part = 1]
    /\ writing' = writing \cup {w}
    /\ wire' = Append(wire, Piece(w, 1))
    /\ UNCHANGED <<alive, mainPc, sessionID, ticks, dispPc, nRead, resp, connBroken>>
    /\ UNCHANGED <<mainErr, logonKey, readers, stopClosed>>
    /\ UNCHANGED metricsPanic
    /\ UNCHANGED cvars

\* the socket takes the rest of the buffer; conn.Write returns len, nil
WriteReturns(w) ==
    /\ alive
    /\ out[w].st = "writing"
    /\ ~connBroken
    /\ wire' = Append(wire, Piece(w, 2))
    /\ writing' = writing \ {w}
    /\ AfterSend(w, TRUE, [out EXCEPT ![w].st = "idle", ![w].part = 2])
    /\ UNCHANGED <<sessionID, ticks, dispPc, nRead, connBroken>>
    /\ UNCHANGED <<logonKey, readers, stopClosed>>
    /\ UNCHANGED metricsPanic
    /\ UNCHANGED cvars

\* conn.Write returns an error, before the first piece or after it: the
\* connection is gone
WriteFails(w) ==
    /\ alive
    /\ \/ out[w].st = "writing"
       \/ out[w].st = "want" /\ canEnterWrite(w)
    /\ connBroken' = TRUE
    /\ writing' = writing \ {w}
    /\ AfterSend(w, FALSE, [out EXCEPT ![w].st = "idle"])
    /\ UNCHANGED <<sessionID, ticks, dispPc, nRead, wire>>
    /\ UNCHANGED <<logonKey, readers, stopClosed>>
    /\ UNCHANGED metricsPanic
    /\ UNCHANGED cvars

Next ==
    \/ MainSendLogon
    \/ MainReadLogon
    \/ MainLogonReadFails
    \/ Tick
    \/ Dispatch
    \/ DispatchReadError
    \/ DispatchPanic
    \/ \E i \in Events : ResolverReturns(i)
    \/ \E w \in Writers : WriteEnter(w)
    \/ \E w \in Writers : WriteReturns(w)
    \/ \E w \in Writers : WriteFails(w)

Spec == Init /\ [][Next]_vars

\* the process with the shutdown signal as an input of its tasks
\* the Go scheduler runs every runnable goroutine, and a connection that
\* stays writable takes what conn.Write hands it: a Write call that can be
\* entered is entered, one that is under way returns; a resolver call that
\* has an answer returns
Fairness ==
    /\ \A w \in Writers : WF_vars(WriteEnter(w)) /\ WF_vars(WriteReturns(w))
    /\ \A i \in Events : WF_vars(ResolverReturns(i))

SpecFair == Init /\ [][Next]_vars /\ Fairness

NextMetrics ==
    \/ Next
    \/ \E i \in Events : MetricsJob(i)

SpecMetrics == Init /\ [][NextMetrics]_vars

NextShutdown ==
    \/ Next
    \/ RaiseStop
    \/ DispatcherStop

SpecShutdown == Init /\ [][NextShutdown]_vars

(***************************************************************************)
(* Properties.                                                             *)
(***************************************************************************)
SamePiece(a, b) == a.w = b.w /\ a.n = b.n /\ a.frame = b.frame

\* C1: the pieces of two frames are never interleaved on the wire: every
\* frame's head is directly followed by its own rest, a head is the first
\* piece or follows the rest of the frame before it, and a head with nothing
\* after it belongs to a Write still running or cut by the connection failing.
C1_FramesContiguous ==
    \A i \in 1..Len(wire) :
        /\ wire[i].part = 1 =>
              /\ i = 1 \/ wire[i - 1].part = 2
              /\ i = Len(wire) => (wire[i].w \in writing \/ connBroken)
        /\ wire[i].part = 2 =>
              /\ i > 1
              /\ wire[i - 1].part = 1
              /\ SamePiece(wire[i - 1], wire[i])

\* C1 witness: one writer is in the middle of its frame while another writer
\* has entered sendMessage with a frame of its own.
C1_Witness ==
    \E a \in Writers, b \in Writers :
        /\ a # b
        /\ out[a].st = "writing"
        /\ out[b].st = "want"
        /\ Len(wire) > 2
        /\ wire[Len(wire)].w = a
        /\ wire[Len(wire)].part = 1

PadKey(k) == [i \in 1..KeyLen |-> IF i <= Len(k) THEN k[i] ELSE NUL]

\* the two reads of a readResponse call were not cut short by the network:
\* each filled its buffer, or took all that was sent
ReadUncut ==
    /\ rGotH = RecvHeaderLen
    /\ rGotB = Len(rBody) \/ (Len(net) = 0 /\ Len(rcv) = 0)

\* C2: round trip: readResponse on the bytes sendMessage wrote for (key,
\* payload) returns the key (padded to 16 bytes) and exactly the payload, and
\* consumes exactly the bytes of the frame.
C2_RoundTrip ==
    (cEchoed /\ cSends = 1 /\ reads = 0 /\ rPc = "ok" /\ ReadUncut) =>
        /\ SubSeq(rHeader, 1, KeyLen) = PadKey(cKey)
        /\ rBody = cPayload
        /\ rGotH + rGotB = Len(cWire)
        /\ Len(net) = 0 /\ Len(rcv) = 0

\* C3: the decimal length field of a frame sendMessage wrote equals the
\* payload length plus 19.
C3_LengthIsPayloadPlus19 ==
    (cSends > 0 /\ Len(cPayload) + DocHeaderLen <= MaxLenField) =>
        LET lf == SubSeq(cWire, KeyLen + 1, KeyLen + LenDigits)
        IN  AtoiOk(lf) /\ Atoi(lf) = Len(cPayload) + DocHeaderLen

\* C4: a frame sendMessage wrote is a header of exactly 19 bytes followed by
\* the payload, which begins at byte offset 19.
C4_HeaderIs19Bytes ==
    (cSends = 1 /\ Len(cPayload) + DocHeaderLen <= MaxLenField) =>
        /\ Len(cWire) = DocHeaderLen + Len(cPayload)
        /\ SubSeq(cWire, DocHeaderLen + 1, DocHeaderLen + Len(cPayload)) = cPayload

\* C5: sendMessage of a payload whose length plus the header size exceeds
\* 999 returns an error and writes nothing.
C5_OverflowRefused ==
    (cSends > 0 /\ Len(cPayload) + DocHeaderLen > MaxLenField) =>
        cSendErr /\ Len(cWire) = 0

\* C6: readResponse returns a frame only when its reads received all 19
\* header bytes and all declaredLength - 16 body bytes.
C6_NoPartialFrame ==
    (gwSent > 0 /\ rPc = "ok") =>
        rGotH = RecvHeaderLen /\ rGotB = Len(rBody)

\* frame i never reached the resolver and never led to a write
Silent(i) ==
    /\ ~resp[i].called
    /\ resp[i].pc \notin {"resolver", "send"}
    /\ out[i].st = "idle"
    /\ out[i].n = 0
    /\ \A k \in 1..Len(wire) : wire[k].w # i

Continuing(b) == isUSSDRequest(b) /\ b.errorCode = "" /\ b.endOfSession = 0

\* C7: a USSDRequest whose errorCode is non-empty never invokes the menu
\* resolver and never causes an outbound frame, whatever its other fields.
C7_ErrorCodeSilent ==
    \A i \in Events :
        (isUSSDRequest(resp[i].body) /\ resp[i].body.errorCode # "") => Silent(i)

\* C7 witness: a request with an errorCode, endOfSession 0, an accepted
\* msgType and userData has been handled to its end.
C7_Witness ==
    \E i \in Events :
        /\ resp[i].pc = "done"
        /\ resp[i].body.errorCode # ""
        /\ resp[i].body.endOfSession = 0
        /\ resp[i].body.msgType = MsgTypeMenu
        /\ resp[i].body.userData # ""

\* C8: a USSDRequest with endOfSession = 1 never invokes the menu resolver
\* and never causes an outbound frame.
C8_EndedSilent ==
    \A i \in Events :
        (isUSSDRequest(resp[i].body) /\ resp[i].body.endOfSession = 1) => Silent(i)

\* C8 witness: a request with endOfSession 1 and no errorCode has been
\* handled to its end.
C8_Witness ==
    \E i \in Events :
        /\ resp[i].pc = "done"
        /\ isUSSDRequest(resp[i].body)
        /\ resp[i].body.errorCode = ""
        /\ resp[i].body.endOfSession = 1

\* C9: a continuing USSDRequest whose msgType is neither 1 nor 4, or whose
\* userData is empty, never invokes the menu resolver and never causes an
\* outbound frame.
C9_InvalidSilent ==
    \A i \in Events :
        ( /\ Continuing(resp[i].body)
          /\ \/ resp[i].body.msgType \notin {MsgTypeMenu, MsgTypeText}
             \/ resp[i].body.userData = "" ) => Silent(i)

\* C9 witness: a continuing request with a msgType outside the accepted set
\* and one with an accepted msgType and empty userData have both been
\* handled to their end.
C9_Witness ==
    \E i \in Events, j \in Events :
        /\ resp[i].pc = "done" /\ Continuing(resp[i].body)
        /\ resp[i].body.msgType \notin {MsgTypeMenu, MsgTypeText}
        /\ resp[i].body.userData # ""
        /\ resp[j].pc = "done" /\ Continuing(resp[j].body)
        /\ resp[j].body.msgType \in {MsgTypeMenu, MsgTypeText}
        /\ resp[j].body.userData = ""

\* C10: every reply frame handed to or taken by the socket has endOfSession
\* 0 when the resolver's answer for its request had continue = true and 1
\* when it had continue = false.
C10_EndOfSessionFollowsContinue ==
    /\ \A k \in 1..Len(wire) :
          wire[k].frame.kind = "USSDResponse" =>
              wire[k].frame.endOfSession =
                  (IF resp[wire[k].w].api.continue THEN 0 ELSE 1)
    /\ \A i \in Events :
          out[i].st # "idle" =>
              out[i].frame.endOfSession = (IF resp[i].api.continue THEN 0 ELSE 1)

\* C10 witness: two replies are on the wire whole, one for an answer with
\* continue = true and one for an answer with continue = false.
C10_Witness ==
    \E a \in 1..Len(wire), b \in 1..Len(wire) :
        /\ wire[a].part = 2 /\ wire[b].part = 2
        /\ wire[a].frame.kind = "USSDResponse" /\ wire[b].frame.kind = "USSDResponse"
        /\ resp[wire[a].w].api.ok /\ resp[wire[a].w].api.continue
        /\ wire[a].frame.endOfSession = 0
        /\ resp[wire[b].w].api.ok /\ ~resp[wire[b].w].api.continue
        /\ wire[b].frame.endOfSession = 1

\* the heads of the frames writer w has put on the wire
HeadsOf(w) ==
    LET isHead(p) == p.w = w /\ p.part = 1
    IN  SelectSeq(wire, isHead)

\* C11: for every inbound frame, sendMessage is called at most once on its
\* behalf and at most one frame of its goroutine reaches the wire; a goroutine
\* whose send failed is done and is not in sendMessage again.
C11_AtMostOneReply ==
    \A i \in Events :
        /\ out[i].n <= 1
        /\ Len(HeadsOf(i)) <= 1
        /\ resp[i].sent = "failed" => (resp[i].pc = "done" /\ out[i].st = "idle")

\* C11 witness: the send of one reply has failed and its goroutine is done,
\* the reply to another frame is on the wire whole, and the process runs.
C11_Witness ==
    \E i \in Events, j \in Events :
        /\ alive
        /\ resp[i].sent = "failed" /\ resp[i].pc = "done" /\ out[i].n = 1
        /\ resp[j].sent = "yes" /\ Len(HeadsOf(j)) = 1

\* C12: every reply frame carries in its key field the requestId of the
\* USSDRequest it answers, which is not the session key; every enquire-link
\* frame carries the session key, which is no requestId of a request or of
\* the logon.
C12_ReplyKeyIsRequestId ==
    /\ \A k \in 1..Len(wire) :
          wire[k].frame.kind = "USSDResponse" =>
              /\ wire[k].frame.key = resp[wire[k].w].body.requestId
              /\ wire[k].frame.key # sessionID
    /\ \A i \in Events :
          out[i].st # "idle" => out[i].frame.key = resp[i].body.requestId
    /\ \A k \in 1..Len(wire) :
          wire[k].frame.kind = "ENQRequest" =>
              /\ wire[k].frame.key = sessionID
              /\ wire[k].frame.key # LogonRequestID
              /\ \A i \in Events : wire[k].frame.key # ReqIds[i]
    /\ mainPc = "enqWrite" =>
          /\ out[0].frame.kind = "ENQRequest"
          /\ out[0].frame.key = sessionID
          /\ out[0].frame.key # LogonRequestID

\* C12 witness: a reply and an enquire link are both on the wire whole.
C12_Witness ==
    \E a \in 1..Len(wire), b \in 1..Len(wire) :
        /\ wire[a].part = 2 /\ wire[a].frame.kind = "USSDResponse"
        /\ wire[a].frame.key = resp[wire[a].w].body.requestId
        /\ wire[b].part = 2 /\ wire[b].frame.kind = "ENQRequest"
        /\ wire[b].frame.key = sessionID

\* C13: once the logon response is read the session key is the first 16
\* bytes of its header, not the request id the logon was sent under, and
\* every enquire-link frame carries exactly those bytes as its key.
C13_SessionKeyFromLogonResponse ==
    /\ mainPc \in {"loop", "enqWrite"} =>
          /\ sessionID = logonKey
          /\ sessionID # LogonRequestID
    /\ mainPc = "enqWrite" => out[0].frame.key = logonKey
    /\ \A k \in 1..Len(wire) :
          wire[k].frame.kind = "ENQRequest" => wire[k].frame.key = logonKey

\* C13 witness: an enquire link under the key of the logon response follows
\* a whole reply on the wire.
C13_Witness ==
    \E a \in 1..Len(wire), b \in 1..Len(wire) :
        /\ a < b
        /\ wire[a].part = 2 /\ wire[a].frame.kind = "USSDResponse"
        /\ wire[b].frame.kind = "ENQRequest"
        /\ wire[b].frame.key = logonKey
        /\ logonKey \in SessionKeys

\* C14: when the read of the logon response fails the run is over: the
\* process has stopped, the logon was sent once, the dispatcher and the
\* keepalive loop were never started, and only the logon frame is on the wire.
C14_LogonReadFailureEndsRun ==
    mainErr = "logonRead" =>
        /\ ~alive
        /\ mainPc = "exit"
        /\ out[0].n = 1
        /\ dispPc = "off"
        /\ nRead = 0
        /\ ticks = 0
        /\ \A w \in Writers : out[w].st = "idle"
        /\ \A k \in 1..Len(wire) : wire[k].frame.kind = "AUTHRequest"

\* C14 witness: the logon frame went out whole and the read of its response
\* failed.
C14_Witness ==
    /\ mainErr = "logonRead"
    /\ Len(wire) = 2
    /\ wire[2].frame.kind = "AUTHRequest"

\* C15: when the write of an enquire-link frame fails the process stops:
\* main is out of its loop, sendMessage was called once per tick and is not
\* entered again, and the frame whose write failed is not on the wire whole.
C15_EnquireFailureFatal ==
    mainErr = "enquire" =>
        /\ ~alive
        /\ mainPc = "exit"
        /\ out[0].st = "idle"
        /\ out[0].n = ticks + 1
        /\ Cardinality({k \in 1..Len(wire) : /\ wire[k].frame.kind = "ENQRequest"
                                             /\ wire[k].part = 2}) <= ticks - 1

\* C15 witness: the write of an enquire link failed while a goroutine was
\* waiting for the resolver.
C15_Witness ==
    /\ mainErr = "enquire"
    /\ ticks >= 1
    /\ \E i \in Events : resp[i].pc = "resolver"

\* C16: after the handshake only the dispatcher takes frames from the
\* connection: no other task has read, and every frame taken was handed to a
\* processServerMessage goroutine.
C16_OnlyDispatcherReads ==
    /\ readers \subseteq {"dispatcher"}
    /\ \A i \in Events : (i <= nRead) <=> (resp[i].pc # "none")

\* C16 witness: the dispatcher has taken a frame, the keepalive loop has sent
\* an enquire link whole and a goroutine has sent its reply.
C16_Witness ==
    /\ readers = {"dispatcher"}
    /\ mainPc = "loop" /\ ticks >= 1
    /\ \E i \in Events : resp[i].sent = "yes"

\* C17: once stopChan is closed the dispatcher takes no further frame, its
\* only step is to return, and that step is open to it.
C17_StopCheckedBeforeRead ==
    /\ [](stopClosed /\ alive /\ dispPc = "select" => ENABLED DispatcherStop)
    /\ [][stopClosed => /\ nRead' = nRead
                        /\ readers' = readers
                        /\ dispPc' \in {dispPc, "stopped"}]_vars

\* C17 witness: the dispatcher took a frame, stopChan was closed with more
\* frames to come, and the dispatcher has returned.
C17_Witness ==
    /\ stopClosed
    /\ dispPc = "stopped"
    /\ nRead >= 1
    /\ nRead < MaxEvents

\* C18: once the shutdown signal is raised the dispatcher takes no further
\* frame and the keepalive loop sends no further enquire link.
C18_SignalStopsBothTasks ==
    [][stopClosed => (nRead' = nRead /\ ticks' = ticks)]_vars

Is2xx(status) == status >= 200 /\ status < 300

\* C19: a goroutine whose resolver call ended with an HTTP status outside
\* 2xx or with an unparsable body sends no reply frame.
C19_BadAnswerNoReply ==
    \A i \in Events :
        (resp[i].called /\ resp[i].pc \in {"send", "done"}
           /\ (~Is2xx(resp[i].api.status) \/ ~resp[i].api.ok)) =>
            /\ out[i].n = 0
            /\ \A k \in 1..Len(wire) : wire[k].w # i

\* C20: a failed write on the connection, of a reply as of an enquire link,
\* stops the process.
C20_AnyWriteFailureFatal ==
    connBroken => ~alive

\* C21: a continuing USSDRequest (no errorCode, endOfSession 0, non-empty
\* userData) with msgType 1 or msgType 4 is accepted: getUssdMenu is called
\* for it, and once getUssdMenu has answered without error sendMessage has
\* been called exactly once for it and no more than one reply frame of it is
\* on the wire.
C21_MenuAndTextAccepted ==
    \A i \in Events :
        (/\ resp[i].pc # "none"
         /\ Continuing(resp[i].body)
         /\ resp[i].body.userData # ""
         /\ resp[i].body.msgType \in {MsgTypeMenu, MsgTypeText}) =>
            /\ resp[i].called
            /\ (resp[i].pc \in {"send", "done"} /\ resp[i].api.ok) =>
                   (out[i].n = 1 /\ Len(HeadsOf(i)) <= 1)
            /\ resp[i].sent = "yes" => Len(HeadsOf(i)) = 1

\* C21 witness: a request with msgType 4 and one with msgType 1 have both
\* been answered, each with one frame.
C21_Witness ==
    \E i \in Events, j \in Events :
        /\ Continuing(resp[i].body) /\ resp[i].body.msgType = MsgTypeText
        /\ resp[i].sent = "yes" /\ Len(HeadsOf(i)) = 1
        /\ Continuing(resp[j].body) /\ resp[j].body.msgType = MsgTypeMenu
        /\ resp[j].sent = "yes" /\ Len(HeadsOf(j)) = 1

\* three bytes that spell a decimal number: an optional sign, then digits
IsDecimalNumber(s) ==
    \/ \A i \in 1..Len(s) : IsDigit(s[i])
    \/ s[1] \in {ChPlus, ChMinus} /\ \A i \in 2..Len(s) : IsDigit(s[i])

LengthBytes(h) == SubSeq(h, KeyLen + 1, RecvHeaderLen)

C23_ReadNeverPanics ==
    rPc # "panic"

\* C24: a failed read ends neither the read loop nor the process: the
\* dispatcher leaves its loop only when the shutdown signal has been raised.
C24_ReadLoopEndsOnlyOnSignal ==
    dispPc \notin {"off", "select"} => stopClosed

\* C25: a responder that does not return, in the resolver call or inside its
\* write, holds up neither the dispatcher's reads nor the keepalive: no
\* enquire-link write waits while a responder is inside conn.Write.
C25_RespondersHoldUpNothing ==
    /\ (alive /\ dispPc = "select" /\ nRead < MaxEvents) => ENABLED Dispatch
    /\ ~(/\ alive
          /\ mainPc = "enqWrite"
          /\ out[0].st = "want"
          /\ \E i \in Events : i \in writing)

\* C26: the socket is closed (here: by the end of the process, the only
\* close there is) only when no responder is still in flight.
C26_ClosedOnlyWhenDrained ==
    ~alive => \A i \in Events : resp[i].pc \in {"none", "done"}

\* C27: an inbound frame whose document has another root than USSDRequest is
\* discarded: no resolver call, no outbound frame, no monitoring update; the
\* session key stays the one of the logon and the dispatcher stays in its
\* loop.
C27_OtherRootDiscarded ==
    \A i \in Events :
        (resp[i].pc # "none" /\ resp[i].body.root # "USSDRequest") =>
            /\ Silent(i)
            /\ resp[i].pc = "done"
            /\ resp[i].monitor = {}
            /\ sessionID = logonKey
            /\ alive => dispPc = "select"

\* C27 witness: an acknowledgement was read and dropped, the frame after it
\* was a request and has been answered, and an enquire link went out since.
C27_Witness ==
    \E i \in Events, j \in Events :
        /\ i < j
        /\ resp[i].body.root = "ENQResponse" /\ resp[i].pc = "done"
        /\ resp[j].sent = "yes"
        /\ ticks >= 1
        /\ alive

\* the responder of frame i has ended on a validation failure
ValidationFailed(i) ==
    /\ resp[i].pc = "done"
    /\ Continuing(resp[i].body)
    /\ ~resp[i].called

\* the responder of frame i has ended on a resolver failure
ResolverFailed(i) ==
    /\ resp[i].pc = "done"
    /\ resp[i].called
    /\ ~resp[i].api.ok

\* C28: a validation failure or a resolver failure of one responder touches
\* no other event: every other responder whose resolver answered has made its
\* one sendMessage call, and its reply went out unless the connection broke;
\* the process ends only through an error of main's own writes or reads or
\* through the dispatcher's panic (or through a monitoring update that
\* reports no failure of the resolver), never through what the failed
\* responder started; while it runs the dispatcher is in its loop and main in
\* its ticker loop.
C28_FailureContained ==
    \A i \in Events :
        (ValidationFailed(i) \/ ResolverFailed(i)) =>
            /\ \A j \in Events \ {i} :
                  (resp[j].called /\ resp[j].api.ok /\ resp[j].pc \in {"send", "done"}) =>
                      /\ out[j].n = 1
                      /\ resp[j].pc = "done" => (resp[j].sent = "yes" \/ connBroken)
            /\ ~alive => \/ mainErr # ""
                         \/ dispPc = "panic"
                         \/ metricsPanic \in {StatusNew, StatusSendFailed}
            /\ alive => (dispPc = "select" /\ mainPc \in {"loop", "enqWrite"})

\* C29: every reply frame on the wire carries the requestId, msisdn,
\* starCode, clientId, phase and dcs of the request its responder was given,
\* and as userData the message the resolver returned to that responder,
\* never the text the resolver has for another request.
C29_ReplyCopiesItsRequest ==
    \A k \in 1..Len(wire) :
        wire[k].w \in Events =>
            LET f == wire[k].frame
                req == resp[wire[k].w].body
            IN  /\ f.requestId = req.requestId
                /\ f.msisdn = req.msisdn
                /\ f.starCode = req.starCode
                /\ f.clientId = req.clientId
                /\ f.phase = req.phase
                /\ f.dcs = req.dcs
                /\ f.userData = resp[wire[k].w].api.message
                /\ f.userData \in {"", MenuTexts[wire[k].w]}

\* C29 witness: the replies to two different requests are on the wire whole,
\* each with the text the resolver has for its own request.
C29_Witness ==
    \E a \in 1..Len(wire), b \in 1..Len(wire) :
        /\ wire[a].w \in Events /\ wire[b].w \in Events
        /\ wire[a].w # wire[b].w
        /\ wire[a].part = 2 /\ wire[b].part = 2
        /\ wire[a].frame.userData = MenuTexts[wire[a].w]
        /\ wire[b].frame.userData = MenuTexts[wire[b].w]
        /\ wire[a].n = 1 /\ wire[b].n = 1

\* C30: every reply frame has endOfSession 0 with msgType 2 when the
\* resolver said to continue, endOfSession 1 with msgType 6 when it did not;
\* no reply carries the msgType of its request.
C30_MsgTypeFollowsContinue ==
    \A k \in 1..Len(wire) :
        wire[k].w \in Events =>
            LET f == wire[k].frame
                a == resp[wire[k].w].api
            IN  /\ \/ a.continue /\ f.endOfSession = 0 /\ f.msgType = MsgTypeContinue
                   \/ ~a.continue /\ f.endOfSession = 1 /\ f.msgType = MsgTypeEnd
                /\ f.msgType # resp[wire[k].w].body.msgType

\* C30 witness: a continuing reply and a terminating reply are on the wire.
C30_Witness ==
    \E a \in 1..Len(wire), b \in 1..Len(wire) :
        /\ wire[a].w \in Events /\ wire[b].w \in Events
        /\ wire[a].frame.msgType = MsgTypeContinue /\ wire[a].frame.endOfSession = 0
        /\ wire[b].frame.msgType = MsgTypeEnd /\ wire[b].frame.endOfSession = 1

\* the heads of the logon frames on the wire
LogonHeads ==
    LET isLogon(p) == p.frame.kind = "AUTHRequest" /\ p.part = 1
    IN  SelectSeq(wire, isLogon)

\* C31: the logon is sent once and comes first: until the logon frame is
\* written whole and its response read, there is no tick, no dispatcher, no
\* read of the dispatcher and nothing but the logon frame on the wire; after
\* that the wire begins with the whole logon frame and holds no second one.
C31_LogonOnceAndFirst ==
    /\ Len(LogonHeads) <= 1
    /\ logonKey = "" =>
          /\ ticks = 0 /\ nRead = 0 /\ dispPc = "off" /\ readers = {}
          /\ \A k \in 1..Len(wire) : wire[k].frame.kind = "AUTHRequest"
          /\ \A i \in Events : resp[i].pc = "none"
    /\ logonKey # "" =>
          /\ Len(wire) >= 2
          /\ wire[1].w = 0 /\ wire[1].part = 1 /\ wire[1].frame = LogonFrame
          /\ wire[2].w = 0 /\ wire[2].part = 2 /\ wire[2].frame = LogonFrame

\* C31 witness: after the logon an enquire link and a reply have been
\* written and the dispatcher has read a frame.
C31_Witness ==
    /\ logonKey # ""
    /\ nRead >= 1
    /\ \E k \in 1..Len(wire) : wire[k].frame.kind = "ENQRequest"
    /\ \E k \in 1..Len(wire) : wire[k].frame.kind = "USSDResponse"

\* C32: nothing orders the replies of two requests: the dispatcher can take
\* the next frame while earlier responders are at work, any responder in the
\* resolver call can be the next to get its answer, and any responder that
\* wants to write can be the next to enter conn.Write when the connection is
\* free.
C32_RepliesUnordered ==
    /\ (alive /\ dispPc = "select" /\ nRead < MaxEvents) => ENABLED Dispatch
    /\ \A i \in Events :
          /\ (alive /\ resp[i].pc = "resolver") => ENABLED ResolverReturns(i)
          /\ (alive /\ out[i].st = "want" /\ writing = {} /\ ~connBroken)
                => ENABLED WriteEnter(i)

\* C32 witness: two accepted requests were read one after the other and the
\* reply to the second is on the wire whole before the first byte of the
\* reply to the first.
C32_Witness ==
    \E i \in Events, j \in Events :
        /\ i < j
        /\ Len(HeadsOf(i)) = 1 /\ Len(HeadsOf(j)) = 1
        /\ \E a \in 1..Len(wire), b \in 1..Len(wire) :
              /\ a < b
              /\ wire[a].w = j /\ wire[a].part = 2
              /\ wire[b].w = i /\ wire[b].part = 1

\* the execution in the order of arrival: the reply to the first request is
\* on the wire whole before the first byte of the reply to the second
RepliesInArrivalOrder ==
    \E i \in Events, j \in Events :
        /\ i < j
        /\ \E a \in 1..Len(wire), b \in 1..Len(wire) :
              /\ a < b
              /\ wire[a].w = i /\ wire[a].part = 2
              /\ wire[b].w = j /\ wire[b].part = 1

\* C33: under fair scheduling, the reply of every accepted request whose
\* resolver call has returned without error is eventually written whole,
\* unless the connection fails.
C33_ReplyEventuallyWritten ==
    \A i \in Events :
        (resp[i].pc = "send") ~> (resp[i].sent = "yes" \/ connBroken)

\* a byte stream that is a sequence of whole frames: 16 key bytes, three
\* digits that spell the body length plus 16, the body
RECURSIVE WellFormed(_)
WellFormed(s) ==
    \/ Len(s) = 0
    \/ /\ Len(s) >= RecvHeaderLen
       /\ \A i \in (KeyLen + 1)..RecvHeaderLen : IsDigit(s[i])
       /\ LET n == DecVal(LengthBytes(s)) - BodyAdjust
          IN  /\ n >= 0
              /\ Len(s) >= RecvHeaderLen + n
              /\ WellFormed(SubSeq(s, RecvHeaderLen + n + 1, Len(s)))

\* the offsets in a well-formed stream at which a frame begins or the stream
\* ends
RECURSIVE FrameStarts(_)
FrameStarts(s) ==
    IF Len(s) = 0 THEN {0}
    ELSE LET n == RecvHeaderLen + DecVal(LengthBytes(s)) - BodyAdjust
         IN  {0} \cup {n + x : x \in FrameStarts(SubSeq(s, n + 1, Len(s)))}

\* the number of gateway bytes the reads have taken from the connection
Consumed == Len(gwBytes) - Len(net) - Len(rcv)

\* C34: when the gateway has sent well-formed frames, every readResponse
\* call starts at the first byte of a frame (or at the end of the stream),
\* also after a call that returned an error and when the bytes of a frame
\* arrive in pieces.
C34_ReadsStartAtFrameStart ==
    (gwSent > 0 /\ WellFormed(gwBytes) /\ rPc = "idle") =>
        Consumed \in FrameStarts(gwBytes)

C35_MetricsNeverEndProcess ==
    metricsPanic = ""

====
